---- MODULE Spec2Model ----
(***************************************************************************)
(* Model of the AIAgentHub server: the in-memory store (server/storage.ts) *)
(* and the HTTP handlers registered in server/routes.ts.                   *)
(*                                                                         *)
(* Every handler is an async function.  It runs without interruption up to *)
(* its next `await`; its continuation is a separate job, and at an await   *)
(* the continuations of other requests that are ready may run first.  An   *)
(* action is therefore one stretch of a handler between two awaits.  A     *)
(* call of an async storage method executes the method body at the call    *)
(* (the bodies contain no await), so the store access belongs to the       *)
(* stretch that ends at `await storage.x(...)`.  `await fetch(...)` and    *)
(* the following `await response.text()` or `response.json()` read and     *)
(* write no server state in between: the stretch after them starts with    *)
(* the upstream's answer, which is an input of that action.                *)
(*                                                                         *)
(* pc[r] is the await at which request r is suspended, req[r] the inbound  *)
(* request, loc[r] the handler's local variables, answer[r] the upstream   *)
(* answer the handler holds (response, responseText, authData, apiResult), *)
(* resp[r] the response sent, calls[r] the outbound calls made for r.      *)
(***************************************************************************)
EXTENDS Integers, Sequences, FiniteSets, TLC

VARIABLES users, sessions, agents,
          currentUserId, currentSessionId, currentAgentId,
          pc, req, loc, answer, resp, calls

store == <<users, sessions, agents, currentUserId, currentSessionId, currentAgentId>>
authStore == <<users, sessions, currentUserId, currentSessionId>>
agentStore == <<agents, currentAgentId>>
vars == <<users, sessions, agents, currentUserId, currentSessionId, currentAgentId,
          pc, req, loc, answer, resp, calls>>

(***************************************************************************)
(* Bounds of the exploration.                                              *)
(***************************************************************************)
MaxUserId == 2
MaxSessionId == 2
MaxAgentId == 4

\* the requests that can be in flight together
Requests == {"r1", "r2"}

(***************************************************************************)
(* JavaScript values.                                                      *)
(***************************************************************************)
Undefined == "<undefined>"
Null == "<null>"
NotAString == "<number>"

Truthy(v) == v \notin {Undefined, Null, ""}

\* a || b
JsOr(a, b) == IF Truthy(a) THEN a ELSE b

\* z.string().min(1)
ZodStringMin1(v) == v \notin {Undefined, Null, NotAString, ""}

\* a JSON value that is a number, a string or missing
JsNone == [t |-> "undefined", n |-> 0, s |-> ""]

JsNum(n) == [t |-> "number", n |-> n, s |-> ""]

JsStr(s) == [t |-> "string", n |-> 0, s |-> s]

Digits == <<"0", "1", "2", "3", "4", "5", "6", "7", "8", "9">>

RECURSIVE DecStr(_)
\* Number.prototype.toString() of a non-negative integer
DecStr(n) == IF n < 10 THEN Digits[n + 1] ELSE DecStr(n \div 10) \o Digits[(n % 10) + 1]

\* value.toString() of a number or a string
JsToString(j) == IF j.t = "number" THEN DecStr(j.n) ELSE j.s

\* stands for NaN, which is no key of any map
NaN == -1

IsDigit(c) == \E d \in 1..10 : Digits[d] = c

DigitValue(c) == (CHOOSE d \in 1..10 : Digits[d] = c) - 1

RECURSIVE ParseDigits(_, _, _)
ParseDigits(chars, i, acc) ==
    IF i > Len(chars) \/ ~IsDigit(chars[i]) THEN acc
    ELSE ParseDigits(chars, i + 1, 10 * acc + DigitValue(chars[i]))

\* parseInt(s) of a string given by its characters: the leading digits, or NaN
ParseInt(chars) ==
    IF chars = <<>> \/ ~IsDigit(chars[1]) THEN NaN ELSE ParseDigits(chars, 1, 0)

(***************************************************************************)
(* A JavaScript Map: entries in insertion order.                           *)
(***************************************************************************)
MapHas(m, k) == \E i \in 1..Len(m) : m[i].k = k

MapIndex(m, k) == CHOOSE i \in 1..Len(m) : m[i].k = k /\ \A j \in 1..(i-1) : m[j].k # k

MapGetOr(m, k, dflt) == IF MapHas(m, k) THEN m[MapIndex(m, k)].v ELSE dflt

MapSet(m, k, v) ==
    IF MapHas(m, k)
    THEN [m EXCEPT ![MapIndex(m, k)] = [k |-> k, v |-> v]]
    ELSE Append(m, [k |-> k, v |-> v])

MapDelete(m, k) == SelectSeq(m, LAMBDA e : e.k # k)

MapValues(m) == [i \in 1..Len(m) |-> m[i].v]

MapKeys(m) == {m[i].k : i \in 1..Len(m)}

(***************************************************************************)
(* MemStorage: accounts and sessions.                                      *)
(***************************************************************************)
NoUser == [id |-> 0, username |-> Undefined, password |-> Undefined]

NoSession == [id |-> 0, userId |-> 0, accessToken |-> Undefined, refreshToken |-> Undefined]

\* Array.from(this.users.values()).find(user => user.username === username)
getUserByUsername(us, username) ==
    LET hits == {i \in 1..Len(us) : us[i].v.username = username}
    IN  IF hits = {} THEN NoUser
        ELSE us[CHOOSE i \in hits : \A j \in hits : i <= j].v

createUserSingleSlot(us, nextId, username, password) ==
    LET user == [id |-> 1, username |-> username, password |-> password]
    IN  [user |-> user, users |-> MapSet(us, 1, user), next |-> nextId + 1]

createUserUnstored(us, nextId, username, password) ==
    LET user == [id |-> nextId, username |-> username, password |-> password]
    IN  [user |-> user, users |-> us, next |-> nextId + 1]

\* createUser: result of the call, the new map and the new counter
createUser(us, nextId, username, password) ==
    LET user == [id |-> nextId, username |-> username, password |-> password]
    IN  [user |-> user, users |-> MapSet(us, nextId, user), next |-> nextId + 1]

createSessionAppend(ss, nextId, userId, accessToken, refreshToken) ==
    LET session == [id |-> nextId, userId |-> userId, accessToken |-> accessToken,
                    refreshToken |-> JsOr(refreshToken, Null)]
    IN  [session |-> session,
         sessions |-> Append(ss, [k |-> userId, v |-> session]),
         next |-> nextId + 1]

\* createSession: the session is stored under userId, not under its own id
createSession(ss, nextId, userId, accessToken, refreshToken) ==
    LET session == [id |-> nextId, userId |-> userId, accessToken |-> accessToken,
                    refreshToken |-> JsOr(refreshToken, Null)]
    IN  [session |-> session, sessions |-> MapSet(ss, userId, session), next |-> nextId + 1]

getSession(ss, userId) == MapGetOr(ss, userId, NoSession)

deleteSession(ss, userId) == MapDelete(ss, userId)

getUser(us, id) == MapGetOr(us, id, NoUser)

(***************************************************************************)
(* MemStorage: agent records.  The records seeded at construction carry    *)
(* the keys prompt / first_message / created_by of the demoAgents literal  *)
(* and have no name / firstMessage / createdBy; records made by            *)
(* createAgent carry the InsertAgent keys.                                 *)
(***************************************************************************)
NoAgent ==
    [id |-> 0, name |-> Undefined, description |-> Undefined, firstMessage |-> Undefined,
     createdBy |-> Undefined, externalId |-> Undefined, prompt |-> Undefined,
     first_message |-> Undefined, created_by |-> Undefined, created_at |-> 0]

demoAgents ==
    << [prompt |-> "Customer Support Agent",
        description |-> "Handles customer inquiries and support tickets",
        first_message |-> "Hello! I'm here to help you with any questions or issues you may have.",
        created_by |-> "admin"],
       [prompt |-> "Sales Assistant",
        description |-> "Helps with product information and sales inquiries",
        first_message |-> "Hi there! I can help you find the perfect product for your needs.",
        created_by |-> "admin"],
       [prompt |-> "Technical Support",
        description |-> "Provides technical assistance and troubleshooting",
        first_message |-> "Welcome! I'm here to help resolve any technical issues you're experiencing.",
        created_by |-> "admin"] >>

\* the agents map after seedDemoAgents() on the empty map with currentAgentId = 1
seedDemoAgents ==
    [i \in 1..Len(demoAgents) |->
        [k |-> i,
         v |-> [NoAgent EXCEPT !.id = i,
                               !.prompt = demoAgents[i].prompt,
                               !.description = demoAgents[i].description,
                               !.first_message = demoAgents[i].first_message,
                               !.created_by = demoAgents[i].created_by,
                               !.externalId = Null,
                               !.created_at = 0]]]

getAgents(ag) == MapValues(ag)

getAgentByPosition(ag, id) == IF id \in 1..Len(ag) THEN ag[id].v ELSE NoAgent

getAgent(ag, id) == MapGetOr(ag, id, NoAgent)

createAgentIdFromSize(ag, nextId, ins, now) ==
    LET id == Len(ag) + 1
        agent == [NoAgent EXCEPT !.name = ins.name,
                                 !.description = ins.description,
                                 !.firstMessage = ins.firstMessage,
                                 !.createdBy = ins.createdBy,
                                 !.id = id,
                                 !.externalId = JsOr(ins.externalId, Null),
                                 !.created_at = now]
    IN  [agent |-> agent, agents |-> MapSet(ag, id, agent), next |-> nextId + 1]

\* { ...insertAgent, id, externalId: insertAgent.externalId || null, created_at: new Date() }
createAgent(ag, nextId, ins, now) ==
    LET agent == [NoAgent EXCEPT !.name = ins.name,
                                 !.description = ins.description,
                                 !.firstMessage = ins.firstMessage,
                                 !.createdBy = ins.createdBy,
                                 !.id = nextId,
                                 !.externalId = JsOr(ins.externalId, Null),
                                 !.created_at = now]
    IN  [agent |-> agent, agents |-> MapSet(ag, nextId, agent), next |-> nextId + 1]

MergeAllKeys(existing, upd) ==
    [f \in DOMAIN existing |-> IF f \in DOMAIN upd THEN upd[f] ELSE existing[f]]

\* { ...existingAgent, ...updateData }: a key of updateData that is present overwrites
Merge(existing, upd) ==
    [f \in DOMAIN existing |->
        IF f \in DOMAIN upd /\ upd[f] # Undefined THEN upd[f] ELSE existing[f]]

updateAgentUpsert(ag, id, upd) ==
    LET updated == Merge([getAgent(ag, id) EXCEPT !.id = id], upd)
    IN  [agent |-> updated, agents |-> MapSet(ag, id, updated)]

updateAgent(ag, id, upd) ==
    IF ~MapHas(ag, id)
    THEN [agent |-> NoAgent, agents |-> ag]
    ELSE LET updated == Merge(getAgent(ag, id), upd)
         IN  [agent |-> updated, agents |-> MapSet(ag, id, updated)]

deleteAgentByPosition(ag, id) ==
    IF id \in 1..Len(ag) THEN SubSeq(ag, 1, id - 1) \o SubSeq(ag, id + 1, Len(ag)) ELSE ag

deleteAgent(ag, id) == MapDelete(ag, id)

(***************************************************************************)
(* Requests, responses and the upstream API.                               *)
(***************************************************************************)
NoBody ==
    [username |-> Undefined, password |-> Undefined, name |-> Undefined,
     description |-> Undefined, firstMessage |-> Undefined, createdBy |-> Undefined]

\* what an inbound request carries: the cookie, the JSON body, the :id path segment
NoReq == [op |-> "none", token |-> Undefined, body |-> NoBody, id |-> <<>>]

NoForm == [id |-> Undefined, prompt |-> Undefined, first_message |-> Undefined, descp |-> Undefined]

\* the handler's local variables that live across an await
NoLoc ==
    [user |-> NoUser, accessToken |-> Undefined, refreshToken |-> Undefined,
     agentId |-> 0, existingAgent |-> NoAgent, agent |-> NoAgent, form |-> NoForm,
     externalData |-> Undefined]

\* the upstream's answer to one fetch: the fetch rejects (throws), or it resolves
\* with a status and a body text; a body text parses as JSON or not, and a parsed
\* body is null or an object of which the handlers read the members below
NoUp ==
    [kind |-> "none", status |-> 0, parses |-> FALSE, isNull |-> FALSE,
     dataAccessToken |-> Undefined, dataRefreshToken |-> Undefined,
     access_token |-> Undefined, refresh_token |-> Undefined,
     success |-> FALSE, error |-> Undefined, hasData |-> FALSE, dataId |-> JsNone]

Throws == [NoUp EXCEPT !.kind = "throw"]

Http(status) == [NoUp EXCEPT !.kind = "http", !.status = status]

Json(status) == [Http(status) EXCEPT !.parses = TRUE]

\* response.ok
Ok(up) == up.status >= 200 /\ up.status <= 299

NoResp ==
    [status |-> 0, message |-> Undefined, cookie |-> Undefined, success |-> FALSE,
     user |-> NoUser, agent |-> NoAgent, list |-> <<>>, externalData |-> Undefined]

\* res.status(s).json({ message })
Fail(status, message) == [NoResp EXCEPT !.status = status, !.message = message]

Cleared == "<cleared>"

Init ==
    /\ users = <<>>
    /\ sessions = <<>>
    /\ agents = seedDemoAgents
    /\ currentUserId = 1
    /\ currentSessionId = 1
    /\ currentAgentId = Len(demoAgents) + 1
    /\ pc = [r \in Requests |-> "idle"]
    /\ req = [r \in Requests |-> NoReq]
    /\ loc = [r \in Requests |-> NoLoc]
    /\ answer = [r \in Requests |-> NoUp]
    /\ resp = [r \in Requests |-> NoResp]
    /\ calls = [r \in Requests |-> 0]

\* the handler sends its response and returns: its locals are gone
Respond(r, response) ==
    /\ pc' = [pc EXCEPT ![r] = "done"]
    /\ resp' = [resp EXCEPT ![r] = response]
    /\ loc' = [loc EXCEPT ![r] = NoLoc]

FetchWithRetry(r, label) ==
    /\ pc' = [pc EXCEPT ![r] = label]
    /\ calls' = [calls EXCEPT ![r] = @ + 2]
    /\ UNCHANGED resp

\* the handler reaches `await fetch(...)`: one outbound call is under way
Fetch(r, label) ==
    /\ pc' = [pc EXCEPT ![r] = label]
    /\ calls' = [calls EXCEPT ![r] = @ + 1]
    /\ UNCHANGED resp

\* the handler yields at an await of a storage call
Yield(r, label) ==
    /\ pc' = [pc EXCEPT ![r] = label]
    /\ UNCHANGED <<resp, calls>>

\* the connection of a finished request is closed; the slot takes the next request
Close(r) ==
    /\ pc[r] = "done"
    /\ pc' = [pc EXCEPT ![r] = "idle"]
    /\ req' = [req EXCEPT ![r] = NoReq]
    /\ resp' = [resp EXCEPT ![r] = NoResp]
    /\ calls' = [calls EXCEPT ![r] = 0]
    /\ answer' = [answer EXCEPT ![r] = NoUp]
    /\ UNCHANGED <<store, loc>>

(***************************************************************************)
(* POST /api/auth/login                                                    *)
(***************************************************************************)
LoginBodies ==
    { [NoBody EXCEPT !.username = "alice", !.password = "pw1"],
      [NoBody EXCEPT !.username = "alice", !.password = "pw2"],
      [NoBody EXCEPT !.username = "testuser", !.password = "password123"],
      [NoBody EXCEPT !.username = "", !.password = "pw1"] }

\* what the token endpoint can answer
LoginAnswers ==
    { Throws,
      Http(403),
      Http(200),
      [Json(200) EXCEPT !.isNull = TRUE],
      Json(200),
      [Json(200) EXCEPT !.dataAccessToken = "tokA", !.dataRefreshToken = "refA"],
      [Json(200) EXCEPT !.access_token = "tokB"],
      [Json(200) EXCEPT !.dataAccessToken = "", !.access_token = "tokB"],
      [Json(201) EXCEPT !.dataAccessToken = "tokA", !.access_token = "tokB",
                        !.refresh_token = "refA"] }

\* loginSchema.parse(req.body)
loginSchema(body) == ZodStringMin1(body.username) /\ ZodStringMin1(body.password)

AccessTokenFlatOnly(up) == up.access_token

\* authData.data?.accessToken || authData.access_token
AccessTokenOf(up) == JsOr(up.dataAccessToken, up.access_token)

RefreshTokenOf(up) == JsOr(up.dataRefreshToken, up.refresh_token)

\* routes.ts 9-32: parse the body, build the form, call the token endpoint
LoginStart(r) ==
    /\ pc[r] = "idle"
    /\ currentSessionId <= MaxSessionId
    /\ \E body \in LoginBodies :
          /\ req' = [req EXCEPT ![r] = [NoReq EXCEPT !.op = "login", !.body = body]]
          /\ IF ~loginSchema(body)
             THEN /\ Respond(r, Fail(400, "Validation error"))
                  /\ UNCHANGED calls
             ELSE /\ Fetch(r, "login_fetch")
                  /\ UNCHANGED loc
    /\ UNCHANGED <<store, answer>>

\* `await fetch(...)` and the read of the body end: the fetch rejected or an answer is in
Receive(r, label, up) ==
    /\ pc[r] = label
    /\ answer' = [answer EXCEPT ![r] = up]

\* routes.ts 34-64: what the handler does with the token endpoint's answer
LoginOutcome(up) ==
    IF up.kind = "throw" THEN "catch"                 \* fetch or text() rejects
    ELSE IF ~Ok(up) THEN "rejected"                   \* if (!response.ok)
    ELSE IF ~up.parses THEN "malformed"               \* JSON.parse throws
    ELSE IF up.isNull THEN "catch"                    \* authData.data on null: TypeError
    ELSE IF ~Truthy(AccessTokenOf(up)) THEN "notoken" \* if (!accessToken)
    ELSE "proceed"

\* routes.ts 34-67: the answer is in; up to `await storage.getUserByUsername`
LoginFetched(r) ==
    /\ \E up \in LoginAnswers :
       /\ Receive(r, "login_fetch", up)
       /\ LET outcome == LoginOutcome(up) IN
          CASE outcome = "catch" ->
                 Respond(r, Fail(500, "Internal server error. Please try again later."))
            [] outcome = "rejected" ->
                 Respond(r, Fail(401, "Authentication failed. Please check your credentials."))
            [] outcome = "malformed" ->
                 Respond(r, Fail(401, "Authentication server returned invalid response format."))
            [] outcome = "notoken" ->
                 Respond(r, Fail(401, "Authentication failed. No access token received."))
            [] outcome = "proceed" ->
                 /\ loc' = [loc EXCEPT ![r] =
                             [NoLoc EXCEPT !.accessToken = AccessTokenOf(up),
                                           !.refreshToken = RefreshTokenOf(up),
                                           !.user = getUserByUsername(users, req[r].body.username)]]
                 /\ Yield(r, "login_gotUser")
    /\ UNCHANGED <<store, req, calls>>

\* routes.ts 76-81: storage.createSession({ userId: user.id, accessToken, refreshToken || null })
LoginCreateSession(r, user) ==
    LET made == createSession(sessions, currentSessionId, user.id,
                              loc[r].accessToken, JsOr(loc[r].refreshToken, Null))
    IN  /\ currentSessionId <= MaxSessionId
        /\ sessions' = made.sessions
        /\ currentSessionId' = made.next

\* routes.ts 68-70 (or 68, 72-81 when the account exists)
LoginGotUser(r) ==
    /\ pc[r] = "login_gotUser"
    /\ IF loc[r].user = NoUser
       THEN LET made == createUser(users, currentUserId,
                                   req[r].body.username, req[r].body.password)
            IN  /\ currentUserId <= MaxUserId
                /\ users' = made.users
                /\ currentUserId' = made.next
                /\ loc' = [loc EXCEPT ![r].user = made.user]
                /\ Yield(r, "login_createdUser")
                /\ UNCHANGED <<sessions, currentSessionId>>
       ELSE /\ LoginCreateSession(r, loc[r].user)
            /\ Yield(r, "login_createdSession")
            /\ UNCHANGED <<users, currentUserId, loc>>
    /\ UNCHANGED <<agentStore, req, answer>>

\* routes.ts 72-81 after `await storage.createUser`
LoginCreatedUser(r) ==
    /\ pc[r] = "login_createdUser"
    /\ LoginCreateSession(r, loc[r].user)
    /\ Yield(r, "login_createdSession")
    /\ UNCHANGED <<users, currentUserId, agentStore, req, loc, answer>>

\* routes.ts 83-95: set the cookie, answer 200
LoginCreatedSession(r) ==
    /\ pc[r] = "login_createdSession"
    /\ Respond(r, [NoResp EXCEPT !.status = 200, !.success = TRUE,
                                 !.message = "Login successful",
                                 !.cookie = loc[r].accessToken,
                                 !.user = [NoUser EXCEPT !.id = loc[r].user.id,
                                                         !.username = loc[r].user.username]])
    /\ UNCHANGED <<store, req, calls, answer>>

(***************************************************************************)
(* POST /api/auth/logout and GET /api/auth/me                              *)
(***************************************************************************)
CookieTokens == {Undefined, "", "tokX"}

HasTokenAlways(token) == TRUE

\* const token = req.cookies?.auth_token; if (!token) return 401
HasToken(token) == Truthy(token)

LogoutDroppingSessions(r) ==
    /\ pc[r] = "idle"
    /\ \E token \in CookieTokens :
          req' = [req EXCEPT ![r] = [NoReq EXCEPT !.op = "logout", !.token = token]]
    /\ Respond(r, [NoResp EXCEPT !.status = 200, !.success = TRUE,
                                 !.message = "Logged out successfully",
                                 !.cookie = Cleared])
    /\ sessions' = <<>>
    /\ UNCHANGED <<users, currentUserId, currentSessionId, agentStore, calls, answer>>

\* routes.ts 113-121
Logout(r) ==
    /\ pc[r] = "idle"
    /\ \E token \in CookieTokens :
          req' = [req EXCEPT ![r] = [NoReq EXCEPT !.op = "logout", !.token = token]]
    /\ Respond(r, [NoResp EXCEPT !.status = 200, !.success = TRUE,
                                 !.message = "Logged out successfully",
                                 !.cookie = Cleared])
    /\ UNCHANGED <<store, calls, answer>>

\* routes.ts 124-139
AuthMe(r) ==
    /\ pc[r] = "idle"
    /\ \E token \in CookieTokens :
          /\ req' = [req EXCEPT ![r] = [NoReq EXCEPT !.op = "me", !.token = token]]
          /\ IF ~HasToken(token)
             THEN Respond(r, Fail(401, "Not authenticated"))
             ELSE Respond(r, [NoResp EXCEPT !.status = 200, !.success = TRUE])
    /\ UNCHANGED <<store, calls, answer>>

AuthNext ==
    \E r \in Requests :
        \/ LoginStart(r)
        \/ LoginFetched(r)
        \/ LoginGotUser(r)
        \/ LoginCreatedUser(r)
        \/ LoginCreatedSession(r)
        \/ Logout(r)
        \/ AuthMe(r)
        \/ Close(r)

\* the credential proxy alone: the agent records are not touched by it
SpecAuth == Init /\ [][AuthNext]_vars

(***************************************************************************)
(* The agent endpoints.                                                    *)
(***************************************************************************)
AgentTokens == {Undefined, "tokX"}

\* :id path segments, as characters
PathIds == {<<"2">>, <<"4">>}

\* new Date()
Times == {1}

FullBody ==
    [NoBody EXCEPT !.name = "n1", !.description = "d1", !.firstMessage = "f1", !.createdBy = "u1"]

PostBodies ==
    { FullBody,
      [FullBody EXCEPT !.name = ""],
      [FullBody EXCEPT !.name = Undefined],
      [FullBody EXCEPT !.description = NotAString] }

PatchBodies ==
    { [NoBody EXCEPT !.name = "n2"],
      [NoBody EXCEPT !.description = "d2", !.firstMessage = ""],
      [NoBody EXCEPT !.description = NotAString] }

AgentFields == {"name", "description", "firstMessage", "createdBy"}

\* insertAgentSchema.parse: the four text columns are notNull, so each must be a string
insertAgentSchema(body) == \A f \in AgentFields : body[f] \notin {Undefined, Null, NotAString}

\* insertAgentSchema.partial().parse: a field that is present must be a string
insertAgentSchemaPartial(body) == \A f \in AgentFields : body[f] \notin {Null, NotAString}

\* the parsed object: the schema's keys only
AgentData(body) == [f \in AgentFields |-> body[f]]

ListAnswers == { Throws, Http(503), Http(200), Json(200) }

AddAnswers ==
    { Throws,
      Http(503),
      Http(200),
      [Json(200) EXCEPT !.isNull = TRUE],
      Json(200),
      [Json(200) EXCEPT !.error = ""],
      [Json(200) EXCEPT !.error = "quota exceeded"],
      [Json(200) EXCEPT !.success = TRUE],
      [Json(201) EXCEPT !.success = TRUE, !.hasData = TRUE, !.dataId = JsNum(17)] }

EditAnswers ==
    { Throws,
      Http(503),
      Http(200),
      [Json(200) EXCEPT !.error = "no such agent"],
      [Json(200) EXCEPT !.success = TRUE, !.hasData = TRUE] }

NotAuthenticated == Fail(401, "Not authenticated")

\* --- GET /api/agents -----------------------------------------------------
\* routes.ts 144-159
ListStartOn(r, tokens) ==
    /\ pc[r] = "idle"
    /\ \E token \in tokens :
          /\ req' = [req EXCEPT ![r] = [NoReq EXCEPT !.op = "list", !.token = token]]
          /\ IF ~HasToken(token)
             THEN /\ Respond(r, NotAuthenticated)
                  /\ UNCHANGED calls
             ELSE /\ Fetch(r, "list_fetch")
                  /\ UNCHANGED loc
    /\ UNCHANGED <<store, answer>>

ListStart(r) == ListStartOn(r, AgentTokens)

ListOutcomeTrusting(up) ==
    IF up.kind = "throw" THEN "catch"
    ELSE IF ~Ok(up) THEN "forward"
    ELSE "ok"

\* routes.ts 153-173: the inner try around the list call
ListOutcome(up) ==
    IF up.kind = "throw" THEN "catch"       \* fetch rejects
    ELSE IF ~Ok(up) THEN "forward"          \* if (!response.ok)
    ELSE IF ~up.parses THEN "catch"         \* response.json() rejects
    ELSE "ok"

\* routes.ts 161-173
ListFetched(r) ==
    /\ \E up \in ListAnswers :
       /\ Receive(r, "list_fetch", up)
       /\ LET outcome == ListOutcome(up) IN
          CASE outcome = "catch" ->
                 Respond(r, Fail(500, "Error connecting to agent API"))
            [] outcome = "forward" ->
                 Respond(r, Fail(up.status, "Failed to fetch agents from API"))
            [] outcome = "ok" ->
                 Respond(r, [NoResp EXCEPT !.status = 200, !.externalData = "upstream list"])
    /\ UNCHANGED <<store, req, calls>>

\* --- POST /api/agents ----------------------------------------------------
\* routes.ts 182-209
CreateStart(r) ==
    /\ pc[r] = "idle"
    /\ currentAgentId <= MaxAgentId
    /\ \E token \in AgentTokens, body \in PostBodies :
          /\ req' = [req EXCEPT ![r] = [NoReq EXCEPT !.op = "create", !.token = token,
                                                     !.body = body]]
          /\ IF ~HasToken(token)
             THEN /\ Respond(r, NotAuthenticated)
                  /\ UNCHANGED calls
             ELSE IF ~insertAgentSchema(body)
             THEN /\ Respond(r, Fail(400, "Validation error"))
                  /\ UNCHANGED calls
             ELSE /\ Fetch(r, "create_fetch")
                  /\ UNCHANGED loc
    /\ UNCHANGED <<store, answer>>

CreateOutcomeLocalFallback(up) ==
    IF up.kind = "throw" THEN "catch"
    ELSE IF ~Ok(up) THEN "store"
    ELSE IF ~up.parses \/ up.isNull THEN "catch"
    ELSE IF ~up.success THEN "reject"
    ELSE IF ~up.hasData \/ up.dataId = JsNone THEN "catch"
    ELSE "store"

\* routes.ts 213-236: what the handler does with the add-agent answer
CreateOutcome(up) ==
    IF up.kind = "throw" THEN "catch"                        \* fetch rejects
    ELSE IF ~Ok(up) THEN "forward"                           \* if (!response.ok)
    ELSE IF ~up.parses \/ up.isNull THEN "catch"             \* json() rejects; null.success
    ELSE IF ~up.success THEN "reject"                        \* if (!apiResult.success)
    ELSE IF ~up.hasData \/ up.dataId = JsNone THEN "catch"   \* apiResult.data.id.toString()
    ELSE "store"

RejectMessageGeneric(up, generic) == generic

\* apiResult.error || "Failed to ... agent"
RejectMessage(up, generic) == JsOr(up.error, generic)

\* routes.ts 211-236, the add-agent answer being one of `answers`
CreateFetchedOn(r, answers) ==
    /\ \E up \in answers :
       /\ Receive(r, "create_fetch", up)
       /\ LET outcome == CreateOutcome(up)
              agentData == AgentData(req[r].body)
          IN
          CASE outcome = "catch" ->
                 /\ Respond(r, Fail(500, "Error creating agent"))
                 /\ UNCHANGED agentStore
            [] outcome = "forward" ->
                 /\ Respond(r, Fail(up.status, "Failed to create agent via external API"))
                 /\ UNCHANGED agentStore
            [] outcome = "reject" ->
                 /\ Respond(r, Fail(400, RejectMessage(up, "Failed to create agent")))
                 /\ UNCHANGED agentStore
            [] outcome = "store" ->
                 \E now \in Times :
                 LET made == createAgent(agents, currentAgentId,
                                 [name |-> agentData.name,
                                  description |-> agentData.description,
                                  firstMessage |-> agentData.firstMessage,
                                  createdBy |-> agentData.createdBy,
                                  externalId |-> JsToString(up.dataId)], now)
                 IN  /\ currentAgentId <= MaxAgentId
                     /\ agents' = made.agents
                     /\ currentAgentId' = made.next
                     /\ loc' = [loc EXCEPT ![r] = [NoLoc EXCEPT !.agent = made.agent,
                                                                !.externalData = JsToString(up.dataId)]]
                     /\ Yield(r, "create_created")
    /\ UNCHANGED <<authStore, req, calls>>

\* routes.ts 211-236
CreateFetched(r) == CreateFetchedOn(r, AddAnswers)

\* routes.ts 238-242
CreateCreated(r) ==
    /\ pc[r] = "create_created"
    /\ Respond(r, [NoResp EXCEPT !.status = 201, !.success = TRUE,
                                 !.agent = loc[r].agent,
                                 !.externalData = loc[r].externalData])
    /\ UNCHANGED <<store, req, calls, answer>>

\* --- PATCH /api/agents/:id -----------------------------------------------
\* routes.ts 258-270
UpdateStart(r) ==
    /\ pc[r] = "idle"
    /\ \E token \in AgentTokens, body \in PatchBodies, id \in PathIds :
          /\ req' = [req EXCEPT ![r] = [NoReq EXCEPT !.op = "update", !.token = token,
                                                     !.body = body, !.id = id]]
          /\ IF ~HasToken(token)
             THEN /\ Respond(r, NotAuthenticated)
                  /\ UNCHANGED calls
             ELSE IF ~insertAgentSchemaPartial(body)
             THEN /\ Respond(r, Fail(400, "Validation error"))
                  /\ UNCHANGED calls
             ELSE /\ loc' = [loc EXCEPT ![r] =
                              [NoLoc EXCEPT !.agentId = ParseInt(id),
                                            !.existingAgent = getAgent(agents, ParseInt(id))]]
                  /\ Yield(r, "update_gotAgent")
    /\ UNCHANGED <<store, answer>>

\* new URLSearchParams({...}): a value that is undefined is sent as the text "undefined"
FormValue(v) == IF v = Undefined THEN "undefined" ELSE IF v = Null THEN "null" ELSE v

EditFormLocalId(agentId, existingAgent, updateData) ==
    [id |-> FormValue(DecStr(agentId)),
     prompt |-> FormValue(JsOr(updateData.name, existingAgent.name)),
     first_message |-> FormValue(JsOr(updateData.firstMessage, existingAgent.firstMessage)),
     descp |-> FormValue(JsOr(updateData.description, existingAgent.description))]

\* routes.ts 276-285
EditForm(agentId, existingAgent, updateData) ==
    [id |-> FormValue(JsOr(existingAgent.externalId, DecStr(agentId))),
     prompt |-> FormValue(JsOr(updateData.name, existingAgent.name)),
     first_message |-> FormValue(JsOr(updateData.firstMessage, existingAgent.firstMessage)),
     descp |-> FormValue(JsOr(updateData.description, existingAgent.description))]

\* routes.ts 272-305
UpdateGotAgent(r) ==
    /\ pc[r] = "update_gotAgent"
    /\ IF loc[r].existingAgent = NoAgent
       THEN /\ Respond(r, Fail(404, "Agent not found"))
            /\ UNCHANGED calls
       ELSE \* existingAgent is not read again
            /\ Fetch(r, "update_fetch")
            /\ loc' = [loc EXCEPT ![r].form = EditForm(loc[r].agentId, loc[r].existingAgent,
                                                       AgentData(req[r].body)),
                                  ![r].existingAgent = NoAgent]
    /\ UNCHANGED <<store, req, answer>>

UpdateOutcomeOptimistic(up) ==
    IF up.kind = "throw" THEN "catch"
    ELSE IF ~Ok(up) THEN "forward"
    ELSE IF ~up.parses THEN "malformed"
    ELSE IF up.isNull THEN "catch"
    ELSE "store"

\* routes.ts 311-338: what the handler does with the edit-agent answer
UpdateOutcome(up) ==
    IF up.kind = "throw" THEN "catch"        \* fetch or text() rejects
    ELSE IF ~Ok(up) THEN "forward"           \* if (!response.ok)
    ELSE IF ~up.parses THEN "malformed"      \* JSON.parse throws
    ELSE IF up.isNull THEN "catch"           \* apiResult.success on null: TypeError
    ELSE IF ~up.success THEN "reject"        \* if (!apiResult.success)
    ELSE "store"

\* routes.ts 307-341
UpdateFetched(r) ==
    /\ \E up \in EditAnswers :
       /\ Receive(r, "update_fetch", up)
       /\ LET outcome == UpdateOutcome(up) IN
          CASE outcome = "catch" ->
                 /\ Respond(r, Fail(500, "Error updating agent"))
                 /\ UNCHANGED agentStore
            [] outcome = "forward" ->
                 /\ Respond(r, Fail(up.status, "Failed to update agent via external API"))
                 /\ UNCHANGED agentStore
            [] outcome = "malformed" ->
                 /\ Respond(r, Fail(500, "External API returned invalid JSON response"))
                 /\ UNCHANGED agentStore
            [] outcome = "reject" ->
                 /\ Respond(r, Fail(400, RejectMessage(up, "Failed to update agent")))
                 /\ UNCHANGED agentStore
            [] outcome = "store" ->
                 LET done == updateAgent(agents, loc[r].agentId, AgentData(req[r].body))
                 IN  /\ agents' = done.agents
                     /\ loc' = [loc EXCEPT ![r].agent = done.agent,
                                           ![r].externalData = "upstream data"]
                     /\ Yield(r, "update_updated")
                     /\ UNCHANGED currentAgentId
    /\ UNCHANGED <<authStore, req, calls>>

\* routes.ts 343-347
UpdateUpdated(r) ==
    /\ pc[r] = "update_updated"
    /\ Respond(r, [NoResp EXCEPT !.status = 200, !.success = TRUE,
                                 !.agent = loc[r].agent,
                                 !.externalData = loc[r].externalData])
    /\ UNCHANGED <<store, req, calls, answer>>

\* --- DELETE /api/agents/:id ----------------------------------------------
\* routes.ts 363-372
DeleteStart(r) ==
    /\ pc[r] = "idle"
    /\ \E token \in AgentTokens, id \in PathIds :
          /\ req' = [req EXCEPT ![r] = [NoReq EXCEPT !.op = "delete", !.token = token, !.id = id]]
          /\ IF ~HasToken(token)
             THEN /\ Respond(r, NotAuthenticated)
                  /\ UNCHANGED <<calls, agents>>
             ELSE /\ agents' = deleteAgent(agents, ParseInt(id))
                  /\ Yield(r, "delete_deleted")
                  /\ UNCHANGED loc
    /\ UNCHANGED <<authStore, currentAgentId, answer>>

\* routes.ts 374
DeleteDeleted(r) ==
    /\ pc[r] = "delete_deleted"
    /\ Respond(r, [NoResp EXCEPT !.status = 200, !.success = TRUE,
                                 !.message = "Agent deleted successfully"])
    /\ UNCHANGED <<store, req, calls, answer>>

AgentNext ==
    \E r \in Requests :
        \/ ListStart(r)
        \/ ListFetched(r)
        \/ CreateStart(r)
        \/ CreateFetched(r)
        \/ CreateCreated(r)
        \/ UpdateStart(r)
        \/ UpdateGotAgent(r)
        \/ UpdateFetched(r)
        \/ UpdateUpdated(r)
        \/ DeleteStart(r)
        \/ DeleteDeleted(r)
        \/ Close(r)

\* the agent proxy alone: accounts and sessions are not touched by it
SpecAgents == Init /\ [][AgentNext]_vars

Next == AuthNext \/ AgentNext

Spec == Init /\ [][Next]_vars

(***************************************************************************)
(* POST and PATCH /api/agents alone, the add-agent call answering with a   *)
(* refusal, with success and no data, with a numeric id or with an id that *)
(* is the empty text.                                                      *)
(***************************************************************************)
AddressAnswers ==
    { Http(503),
      [Json(200) EXCEPT !.success = TRUE],
      [Json(201) EXCEPT !.success = TRUE, !.hasData = TRUE, !.dataId = JsNum(17)],
      [Json(200) EXCEPT !.success = TRUE, !.hasData = TRUE, !.dataId = JsStr("")] }

AddressNext ==
    \E r \in Requests :
        \/ CreateStart(r)
        \/ CreateFetchedOn(r, AddressAnswers)
        \/ CreateCreated(r)
        \/ UpdateStart(r)
        \/ UpdateGotAgent(r)
        \/ UpdateFetched(r)
        \/ UpdateUpdated(r)
        \/ Close(r)

SpecAddressing == Init /\ [][AddressNext]_vars

(***************************************************************************)
(* The seven endpoints, one request after the other: a request is taken    *)
(* when the one before it has been answered and closed.                    *)
(***************************************************************************)
Handlers(r) ==
    \/ LoginStart(r)
    \/ LoginFetched(r)
    \/ LoginGotUser(r)
    \/ LoginCreatedUser(r)
    \/ LoginCreatedSession(r)
    \/ Logout(r)
    \/ AuthMe(r)
    \/ ListStart(r)
    \/ ListFetched(r)
    \/ CreateStart(r)
    \/ CreateFetched(r)
    \/ CreateCreated(r)
    \/ UpdateStart(r)
    \/ UpdateGotAgent(r)
    \/ UpdateFetched(r)
    \/ UpdateUpdated(r)
    \/ DeleteStart(r)
    \/ DeleteDeleted(r)
    \/ Close(r)

SerialNext == Handlers("r1")

SpecSerial == Init /\ [][SerialNext]_vars

\* the event loop resumes a handler once the promise it awaits has settled: a
\* storage promise settles at once, a fetch when the upstream answers or fails
Continue(r) ==
    \/ LoginFetched(r)
    \/ LoginGotUser(r)
    \/ LoginCreatedUser(r)
    \/ LoginCreatedSession(r)
    \/ ListFetched(r)
    \/ CreateFetched(r)
    \/ CreateCreated(r)
    \/ UpdateGotAgent(r)
    \/ UpdateFetched(r)
    \/ UpdateUpdated(r)
    \/ DeleteDeleted(r)

SpecSerialFair == SpecSerial /\ WF_vars(Continue("r1"))

(***************************************************************************)
(* The list endpoint called with the tokens of the demo session as well,   *)
(* while records are deleted.                                              *)
(***************************************************************************)
ListTokens == AgentTokens \cup {"demo_token_1700000000000"}

ListingNext ==
    \E r \in Requests :
        \/ ListStartOn(r, ListTokens)
        \/ ListFetched(r)
        \/ DeleteStart(r)
        \/ DeleteDeleted(r)
        \/ Close(r)

SpecListing == Init /\ [][ListingNext]_vars

(***************************************************************************)
(* The store alone: any sequence of calls of the MemStorage methods that   *)
(* write, made directly on the exported `storage` object.                  *)
(***************************************************************************)
StoreUserIds == 1..MaxUserId

\* a seeded id, the first id createAgent gives, an id that was never given
StoreAgentIds == {2, Len(demoAgents) + 1, MaxAgentId + 1}

\* InsertAgent values: the four text fields and the optional externalId
StoreInserts ==
    { [name |-> FullBody.name, description |-> FullBody.description,
       firstMessage |-> FullBody.firstMessage, createdBy |-> FullBody.createdBy,
       externalId |-> x] : x \in {Undefined, "17"} }

\* Partial<InsertAgent> values
StoreUpdates == { AgentData([NoBody EXCEPT !.description = "d2"]) }

StoreCreateUser ==
    /\ currentUserId <= MaxUserId
    /\ \E username \in {"alice"}, password \in {"pw1"} :
          LET made == createUser(users, currentUserId, username, password)
          IN  /\ users' = made.users
              /\ currentUserId' = made.next
    /\ UNCHANGED <<sessions, currentSessionId, agentStore, pc, req, loc, answer, resp, calls>>

StoreCreateSession ==
    /\ currentSessionId <= MaxSessionId
    /\ \E userId \in StoreUserIds, accessToken \in {"tokA"}, refreshToken \in {Undefined} :
          LET made == createSession(sessions, currentSessionId, userId, accessToken, refreshToken)
          IN  /\ sessions' = made.sessions
              /\ currentSessionId' = made.next
    /\ UNCHANGED <<users, currentUserId, agentStore, pc, req, loc, answer, resp, calls>>

StoreDeleteSession ==
    /\ \E userId \in StoreUserIds : sessions' = deleteSession(sessions, userId)
    /\ UNCHANGED <<users, currentUserId, currentSessionId, agentStore,
                   pc, req, loc, answer, resp, calls>>

StoreCreateAgent ==
    /\ currentAgentId <= MaxAgentId
    /\ \E ins \in StoreInserts, now \in Times :
          LET made == createAgent(agents, currentAgentId, ins, now)
          IN  /\ agents' = made.agents
              /\ currentAgentId' = made.next
    /\ UNCHANGED <<authStore, pc, req, loc, answer, resp, calls>>

StoreUpdateAgent ==
    /\ \E id \in StoreAgentIds, upd \in StoreUpdates : agents' = updateAgent(agents, id, upd).agents
    /\ UNCHANGED <<authStore, currentAgentId, pc, req, loc, answer, resp, calls>>

StoreDeleteAgent ==
    /\ \E id \in StoreAgentIds : agents' = deleteAgent(agents, id)
    /\ UNCHANGED <<authStore, currentAgentId, pc, req, loc, answer, resp, calls>>

StoreNext ==
    \/ StoreCreateUser
    \/ StoreCreateSession
    \/ StoreDeleteSession
    \/ StoreCreateAgent
    \/ StoreUpdateAgent
    \/ StoreDeleteAgent

SpecStore == Init /\ [][StoreNext]_vars

(***************************************************************************)
(* Properties.                                                             *)
(***************************************************************************)
AgentOps == {"list", "create", "update", "delete"}

\* request r takes a step of its handler
Steps(r) == pc'[r] # pc[r]

\* C1: an agent operation whose request carries no auth_token cookie is answered
\* 401 in its first step, whatever its body and id are, with no outbound call made
\* and the store as it was.
C1_NoTokenRejected ==
    [][\A r \in Requests :
         (pc[r] = "idle" /\ Steps(r) /\ req'[r].op \in AgentOps /\ req'[r].token = Undefined)
         => /\ pc'[r] = "done"
            /\ resp'[r].status = 401
            /\ calls'[r] = 0
            /\ store' = store]_vars

\* an update without a cookie and with a body that fails validation was answered 401
C1_Witness ==
    \E r \in Requests :
        /\ pc[r] = "done"
        /\ req[r].op = "update"
        /\ req[r].token = Undefined
        /\ ~insertAgentSchemaPartial(req[r].body)
        /\ resp[r].status = 401

\* C2: when the add-agent call answers non-2xx with status S, POST /api/agents
\* answers S and adds no record; and a step adds a record to the store only when it
\* is the step of a create request whose answer was 2xx with success true.
C2_NoLocalOnlyCreate ==
    [][/\ \A r \in Requests :
            (pc[r] = "create_fetch" /\ Steps(r) /\ answer'[r].kind = "http" /\ ~Ok(answer'[r]))
            => /\ pc'[r] = "done"
               /\ resp'[r].status = answer'[r].status
               /\ agents' = agents
               /\ currentAgentId' = currentAgentId
       /\ (MapKeys(agents') \ MapKeys(agents) # {})
            => \E r \in Requests :
                  /\ pc[r] = "create_fetch"
                  /\ pc'[r] = "create_created"
                  /\ Ok(answer'[r])
                  /\ answer'[r].parses
                  /\ answer'[r].success]_vars

\* one create was refused with the upstream's 503 and another has stored a record
C2_Witness ==
    /\ \E r \in Requests :
          /\ pc[r] = "done"
          /\ req[r].op = "create"
          /\ answer[r].status = 503
          /\ resp[r].status = 503
    /\ \E i \in 1..Len(agents) : agents[i].v.externalId = "17"

\* the create request r has received a 2xx answer whose parsed body reports
\* success false
CreateRefused(r) ==
    /\ pc[r] = "create_fetch"
    /\ Steps(r)
    /\ Ok(answer'[r])
    /\ answer'[r].parses
    /\ ~answer'[r].isNull
    /\ ~answer'[r].success

\* C3 as stated: a 2xx answer with success false and error text E is answered 400
\* with message exactly E, the agent records and the next-id counter as before.
C3_Original ==
    [][\A r \in Requests :
         (CreateRefused(r) /\ answer'[r].error # Undefined)
         => /\ resp'[r].status = 400
            /\ resp'[r].message = answer'[r].error
            /\ agents' = agents
            /\ currentAgentId' = currentAgentId]_vars

\* C3 amended: a 2xx answer with success false is answered 400, with message exactly
\* E when the error text E is not empty and with "Failed to create agent" when the
\* error is empty or missing; the agent records and the next-id counter are as before.
C3_RejectMessage ==
    [][\A r \in Requests :
         CreateRefused(r)
         => /\ resp'[r].status = 400
            /\ resp'[r].message =
                  IF answer'[r].error \in {Undefined, ""}
                  THEN "Failed to create agent"
                  ELSE answer'[r].error
            /\ agents' = agents
            /\ currentAgentId' = currentAgentId]_vars

\* a create was answered 400 "quota exceeded"
C3_Witness ==
    \E r \in Requests :
        /\ pc[r] = "done"
        /\ req[r].op = "create"
        /\ answer[r].error = "quota exceeded"
        /\ ~answer[r].success
        /\ resp[r].status = 400
        /\ resp[r].message = "quota exceeded"

\* C4: GET /api/agents with a token answers 200 with the store's agent list when the
\* upstream list call fails (non-2xx or transport error).
C4_ListFallback ==
    \A r \in Requests :
        (/\ pc[r] = "done"
         /\ req[r].op = "list"
         /\ HasToken(req[r].token)
         /\ (answer[r].kind = "throw" \/ (answer[r].kind = "http" /\ ~Ok(answer[r]))))
        => /\ resp[r].status = 200
           /\ resp[r].list = getAgents(agents)

DemoBody == [NoBody EXCEPT !.username = "testuser", !.password = "password123"]

DemoTokens == {"demo_token_1700000000000"}

\* C5: a login with the demo pair makes no outbound call and succeeds with a cookie
\* that starts with "demo_token_".
C5_DemoLogin ==
    \A r \in Requests :
        (req[r].op = "login" /\ req[r].body = DemoBody)
        => /\ calls[r] = 0
           /\ pc[r] = "done" => /\ resp[r].status = 200
                                /\ resp[r].success
                                /\ resp[r].cookie \in DemoTokens

\* C6: a login whose upstream answer is non-2xx, or 2xx and unparsable, or 2xx and
\* parsed without an access token, is answered 401 and sets no cookie.
C6_LoginFailures401 ==
    \A r \in Requests :
        (/\ pc[r] = "done"
         /\ req[r].op = "login"
         /\ answer[r].kind = "http"
         /\ \/ ~Ok(answer[r])
            \/ ~answer[r].parses
            \/ answer[r].isNull
            \/ ~Truthy(AccessTokenOf(answer[r])))
        => /\ resp[r].status = 401
           /\ resp[r].cookie = Undefined

\* C7: when a login answers with success, the cookie it sets is the accessToken of
\* the Session stored for the user's id at that moment.
C7_CookieIsStoredToken ==
    [][\A r \in Requests :
         (pc[r] = "login_createdSession" /\ Steps(r))
         => /\ resp'[r].status = 200
            /\ resp'[r].cookie = getSession(sessions', resp'[r].user.id).accessToken]_vars

\* C8: no two Accounts share a username and no two share an id.
C8_OneAccountPerUsername ==
    \A i, j \in 1..Len(users) :
        (users[i].v.username = users[j].v.username \/ users[i].v.id = users[j].v.id) => i = j

OneSessionPerUser ==
    \A i, j \in 1..Len(sessions) : sessions[i].k = sessions[j].k => i = j

\* request r executes createSession in this step
CallsCreateSession(r) ==
    /\ pc[r] \in {"login_gotUser", "login_createdUser"}
    /\ pc'[r] = "login_createdSession"

\* C9: the store holds at most one Session per userId; after a createSession call
\* getSession of that userId returns the Session of this call (its id and its
\* accessToken), so the later of two calls wins, and the Sessions of other users are
\* as before.
C9_LatestSessionWins ==
    [][/\ OneSessionPerUser'
       /\ \A r \in Requests :
            CallsCreateSession(r)
            => /\ getSession(sessions', loc[r].user.id).id = currentSessionId
               /\ getSession(sessions', loc[r].user.id).accessToken = loc[r].accessToken
               /\ getSession(sessions', loc[r].user.id).userId = loc[r].user.id
               /\ \A u \in 1..MaxUserId + 1 :
                     u # loc[r].user.id => getSession(sessions', u) = getSession(sessions, u)]_vars

\* the second createSession for one user has replaced the first
C9_Witness ==
    /\ Len(sessions) = 1
    /\ sessions[1].v.id = 2
    /\ currentSessionId = 3

\* request r executes updateAgent in this step
CallsUpdateAgent(r) == pc[r] = "update_fetch" /\ pc'[r] = "update_updated"

\* C10: updateAgent with an id that is not in the store returns absent and leaves
\* the agent records and the next-id counter as they were; an update request (with a
\* token and a body that validates) for an id that is not in the store is answered
\* 404 and makes no upstream call.
C10_UpdateAbsent ==
    [][\A r \in Requests :
         /\ (CallsUpdateAgent(r) /\ ~MapHas(agents, loc[r].agentId))
            => /\ loc'[r].agent = NoAgent
               /\ agents' = agents
               /\ currentAgentId' = currentAgentId
         /\ (pc[r] = "idle" /\ pc'[r] = "update_gotAgent"
               /\ ~MapHas(agents, ParseInt(req'[r].id)))
            => loc'[r].existingAgent = NoAgent
         /\ (pc[r] = "update_gotAgent" /\ Steps(r) /\ loc[r].existingAgent = NoAgent)
            => /\ pc'[r] = "done"
               /\ resp'[r].status = 404
               /\ calls'[r] = 0
               /\ store' = store]_vars

\* one update was answered 404, and in another updateAgent found its record gone
C10_Witness ==
    /\ \E r \in Requests :
          /\ pc[r] = "done"
          /\ req[r].op = "update"
          /\ resp[r].status = 404
          /\ calls[r] = 0
    /\ \E r \in Requests :
          /\ pc[r] = "update_updated"
          /\ loc[r].agent = NoAgent
          /\ ~MapHas(agents, loc[r].agentId)

\* request r is an update whose upstream call is answered in this step
UpdateAnswered(r) == pc[r] = "update_fetch" /\ Steps(r) /\ answer'[r].kind = "http"

\* C11: when the edit call of an update answers non-2xx (status S), the update is
\* answered S; when it answers 2xx with a body that does not parse, 500; when it
\* answers 2xx with success false, 400 with the upstream's error text; in the three
\* cases, and in every other step of an update except the one that calls
\* updateAgent, the agent records and the next-id counter stay as they were.
C11_FailedEditKeepsRecord ==
    [][\A r \in Requests :
         /\ (UpdateAnswered(r) /\ ~Ok(answer'[r]))
            => /\ resp'[r].status = answer'[r].status
               /\ pc'[r] = "done"
               /\ agentStore' = agentStore
         /\ (UpdateAnswered(r) /\ Ok(answer'[r]) /\ ~answer'[r].parses)
            => /\ resp'[r].status = 500
               /\ pc'[r] = "done"
               /\ agentStore' = agentStore
         /\ (UpdateAnswered(r) /\ Ok(answer'[r]) /\ answer'[r].parses /\ ~answer'[r].success)
            => /\ resp'[r].status = 400
               /\ Truthy(answer'[r].error) => resp'[r].message = answer'[r].error
               /\ pc'[r] = "done"
               /\ agentStore' = agentStore
         /\ (Steps(r) /\ req'[r].op = "update" /\ ~CallsUpdateAgent(r))
            => agentStore' = agentStore]_vars

\* an update of the seeded record 2 was refused by the upstream with success false,
\* answered 400 with the upstream's text, and record 2 is as it was seeded
C11_Witness ==
    \E r \in Requests :
        /\ pc[r] = "done"
        /\ req[r].op = "update"
        /\ ParseInt(req[r].id) = 2
        /\ Ok(answer[r]) /\ answer[r].parses /\ ~answer[r].success
        /\ resp[r].status = 400
        /\ resp[r].message = "no such agent"
        /\ getAgent(agents, 2) = seedDemoAgents[2].v

\* request r sends the success response of an update in this step
UpdateAnsweredOk(r) == pc[r] = "update_updated" /\ Steps(r)

\* C12: every success response of an update carries in its agent field the stored
\* record with the requested id, and that record is in the store when the response
\* is sent, also when a delete of the same id completes during the upstream call.
C12_SuccessCarriesRecord ==
    [][\A r \in Requests :
         UpdateAnsweredOk(r)
         => /\ resp'[r].status = 200
            /\ resp'[r].success
            /\ resp'[r].agent # NoAgent
            /\ resp'[r].agent.id = loc[r].agentId
            /\ MapHas(agents', loc[r].agentId)
            /\ getAgent(agents', loc[r].agentId) = resp'[r].agent]_vars

\* request r builds the form of the edit call and makes the call in this step
BuildsForm(r) == pc[r] = "update_gotAgent" /\ pc'[r] = "update_fetch"

\* what a form field holds when no value was there to send: nothing, the empty
\* text, or the text URLSearchParams makes of undefined or null
Unset == {Undefined, Null, "", "undefined", "null"}

\* C13: in every update that reaches the edit call, each of the form fields prompt,
\* first_message and descp is the request's value of name, firstMessage, description
\* when the request provides it and the record's stored value otherwise, and none of
\* the three is unset or blank.
C13_FormFields ==
    [][\A r \in Requests :
         BuildsForm(r)
         => LET body == req[r].body
                existing == loc[r].existingAgent
                form == loc'[r].form
            IN  /\ form.prompt = IF body.name # Undefined THEN body.name ELSE existing.name
                /\ form.first_message =
                      IF body.firstMessage # Undefined THEN body.firstMessage
                      ELSE existing.firstMessage
                /\ form.descp =
                      IF body.description # Undefined THEN body.description
                      ELSE existing.description
                /\ form.prompt \notin Unset
                /\ form.first_message \notin Unset
                /\ form.descp \notin Unset]_vars

\* the record was made by createAgent, that is by POST /api/agents: seeding has
\* taken the ids up to Len(demoAgents)
CreatedByPost(record) == record.id > Len(demoAgents)

\* the form id the code's rule gives: the stored externalId when there is one, the
\* decimal text of the local id otherwise
AddressOf(record, agentId) ==
    IF record.externalId \notin {Null, Undefined} THEN record.externalId ELSE DecStr(agentId)

\* request r stores the record of a successful create in this step
StoresRecord(r) == pc[r] = "create_fetch" /\ pc'[r] = "create_created"

\* C14 as stated: the id form field is the stored externalId when the record has
\* one and the decimal text of the local id otherwise, and a record created by a
\* successful POST /api/agents has an externalId and is addressed by it.
C14_Original ==
    [][\A r \in Requests :
         BuildsForm(r)
         => LET existing == loc[r].existingAgent
                form == loc'[r].form
            IN  /\ form.id = AddressOf(existing, loc[r].agentId)
                /\ CreatedByPost(existing)
                   => /\ existing.externalId \notin {Null, Undefined}
                      /\ form.id = existing.externalId]_vars

\* C14 amended: the id form field is the stored externalId when the record has one
\* and the decimal text of the local id otherwise; a successful POST /api/agents
\* stores the text of the upstream's id as externalId when that text is not empty,
\* and stores no externalId when it is empty, so that the record is then addressed
\* by its local id.
C14_Addressing ==
    [][\A r \in Requests :
         /\ BuildsForm(r)
            => LET existing == loc[r].existingAgent
                   form == loc'[r].form
               IN  /\ form.id = AddressOf(existing, loc[r].agentId)
                   /\ (CreatedByPost(existing) /\ existing.externalId # Null)
                      => form.id = existing.externalId
                   /\ (CreatedByPost(existing) /\ existing.externalId = Null)
                      => form.id = DecStr(existing.id)
         /\ StoresRecord(r)
            => LET assigned == JsToString(answer'[r].dataId)
                   stored == getAgent(agents', currentAgentId)
               IN  /\ stored = loc'[r].agent
                   /\ stored.externalId = IF assigned = "" THEN Null ELSE assigned]_vars

\* an update of record 4, created with the upstream's id 17, is calling the
\* upstream with id 17
C14_Witness ==
    \E r \in Requests :
        /\ pc[r] = "update_fetch"
        /\ loc[r].agentId = 4
        /\ loc[r].form.id = "17"
        /\ getAgent(agents, 4).externalId = "17"

\* C15: updateAgent on a record that is in the store changes exactly the fields its
\* argument provides: every other field of the record (id, externalId, creation time
\* and the fields not provided) keeps its value, the call returns the new record,
\* every other record, the order of the records and the next-id counter are as
\* before.
C15_UpdateChangesOnlyGiven ==
    [][\A r \in Requests :
         (CallsUpdateAgent(r) /\ MapHas(agents, loc[r].agentId))
         => LET id == loc[r].agentId
                upd == AgentData(req[r].body)
                old == getAgent(agents, id)
                new == getAgent(agents', id)
            IN  /\ \A f \in DOMAIN NoAgent :
                      new[f] = IF f \in DOMAIN upd /\ upd[f] # Undefined THEN upd[f] ELSE old[f]
                /\ loc'[r].agent = new
                /\ Len(agents') = Len(agents)
                /\ \A i \in 1..Len(agents) :
                      /\ agents'[i].k = agents[i].k
                      /\ agents[i].k # id => agents'[i] = agents[i]
                /\ currentAgentId' = currentAgentId]_vars

\* record 2 has taken the description and the empty first message of an update and
\* kept its seeded prompt, and record 4, made by a create, is in the store
C15_Witness ==
    /\ getAgent(agents, 2).description = "d2"
    /\ getAgent(agents, 2).firstMessage = ""
    /\ getAgent(agents, 2).prompt = demoAgents[2].prompt
    /\ getAgent(agents, 2).externalId = Null
    /\ MapHas(agents, 4)
    /\ \E r \in Requests : pc[r] = "update_updated" /\ loc[r].agentId = 2

\* C16: on a newly constructed store getAgents returns exactly the records created by
\* createAgent and not deleted since, in creation order: every listed record was made
\* by createAgent, and a store on which createAgent was not called lists nothing.
C16_ListIsWhatWasCreated ==
    /\ \A i \in 1..Len(getAgents(agents)) : CreatedByPost(getAgents(agents)[i])
    /\ \A i, j \in 1..Len(getAgents(agents)) :
          i < j => getAgents(agents)[i].id < getAgents(agents)[j].id

\* request r, carrying a token, executes deleteAgent in this step
CallsDeleteAgent(r) == pc[r] = "idle" /\ pc'[r] = "delete_deleted"

\* C17: a delete request with a token makes no upstream call and is answered 200 with
\* success whether or not the id is in the store; after the deleteAgent call the id is
\* not in the store, every other record, the order of the records and the next-id
\* counter are as before, and a second delete of the id would leave that store as it
\* is.
C17_DeleteAlwaysSucceeds ==
    [][\A r \in Requests :
         /\ (pc[r] = "idle" /\ Steps(r) /\ req'[r].op = "delete" /\ HasToken(req'[r].token))
            => CallsDeleteAgent(r)
         /\ CallsDeleteAgent(r)
            => LET id == ParseInt(req'[r].id)
               IN  /\ calls'[r] = 0
                   /\ ~MapHas(agents', id)
                   /\ getAgent(agents', id) = NoAgent
                   /\ agents' = SelectSeq(agents, LAMBDA e : e.k # id)
                   /\ deleteAgent(agents', id) = agents'
                   /\ currentAgentId' = currentAgentId
         /\ (pc[r] = "delete_deleted" /\ Steps(r))
            => /\ pc'[r] = "done"
               /\ resp'[r].status = 200
               /\ resp'[r].success
               /\ calls'[r] = 0
               /\ store' = store]_vars

\* record 2 was deleted by one request, and a second delete of id 2, which found no
\* record, was answered 200 as well
C17_Witness ==
    /\ ~MapHas(agents, 2)
    /\ \A r \in Requests :
          /\ pc[r] = "done"
          /\ req[r].op = "delete"
          /\ ParseInt(req[r].id) = 2
          /\ resp[r].status = 200
          /\ resp[r].success
          /\ calls[r] = 0
    /\ MapHas(agents, 1) /\ MapHas(agents, 3)

\* the ids of the entities held in a map
IdsIn(m) == {m[i].v.id : i \in 1..Len(m)}

\* one kind of entity: every id in the map is below the counter; the counter never
\* goes down; when it moves it moves by one and the id it held is the id of the one
\* new entity; and no entity appears without the counter moving
FreshIds(m, after, counter, counterAfter) ==
    /\ \A id \in IdsIn(after) : id < counterAfter
    /\ counterAfter >= counter
    /\ counterAfter # counter
       => /\ counterAfter = counter + 1
          /\ IdsIn(after) \ IdsIn(m) = {counter}
    /\ counterAfter = counter => IdsIn(after) \subseteq IdsIn(m)

\* C18: over any sequence of createUser, createSession, createAgent, updateAgent,
\* deleteAgent and deleteSession calls, the id given to a new Account, Session or
\* agent record is the counter of its kind, which is above every id given before
\* (the seeded agents included) and only grows: an id freed by a delete is never
\* given again.
C18_IdsNeverReused ==
    [][/\ FreshIds(users, users', currentUserId, currentUserId')
       /\ FreshIds(sessions, sessions', currentSessionId, currentSessionId')
       /\ FreshIds(agents, agents', currentAgentId, currentAgentId')
       /\ \A i \in 1..Len(agents') : agents'[i].k = agents'[i].v.id
       /\ \A i \in 1..Len(users') : users'[i].k = users'[i].v.id]_vars

\* after the seeded record 2 was deleted a created record took id 4; an Account holds
\* id 2; the one stored Session holds id 2, the Session with id 1 being gone
C18_Witness ==
    /\ ~MapHas(agents, 2)
    /\ MapHas(agents, 4)
    /\ Len(agents) = Len(demoAgents)
    /\ MapHas(users, 2)
    /\ IdsIn(sessions) = {2}

\* C19: in every state reached through the endpoints, the userId of every stored
\* Session, and the key it is stored under, is the id of an Account in the store.
C19_SessionHasAccount ==
    \A i \in 1..Len(sessions) :
        /\ sessions[i].k = sessions[i].v.userId
        /\ MapHas(users, sessions[i].v.userId)
        /\ getUser(users, sessions[i].v.userId).id = sessions[i].v.userId

\* two Accounts exist and each has a Session
C19_Witness ==
    /\ Len(users) = 2
    /\ Len(sessions) = 2
    /\ MapKeys(sessions) = MapKeys(users)

\* the access tokens of the Sessions in the store
SessionTokens == {sessions[i].v.accessToken : i \in 1..Len(sessions)}

\* C20: a request to GET /api/auth/me whose cookie value is not the accessToken of a
\* Session in the store is answered 401.
C20_UnknownTokenRejected ==
    [][\A r \in Requests :
         (pc[r] = "idle" /\ Steps(r) /\ req'[r].op = "me" /\ req'[r].token \notin SessionTokens)
         => resp'[r].status = 401]_vars

\* a create body lacks one of the four fields or carries it as the empty text
MissingOrEmpty(body) == \E f \in AgentFields : body[f] \in {Undefined, ""}

\* C21: a create request with a token whose body lacks one of name, description,
\* firstMessage, createdBy, or carries it as the empty text, is answered 400 in its
\* first step, with no upstream call made and no record created.
C21_EmptyFieldRejected ==
    [][\A r \in Requests :
         (/\ pc[r] = "idle" /\ Steps(r)
          /\ req'[r].op = "create"
          /\ HasToken(req'[r].token)
          /\ MissingOrEmpty(req'[r].body))
         => /\ pc'[r] = "done"
            /\ resp'[r].status = 400
            /\ calls'[r] = 0
            /\ agentStore' = agentStore]_vars

\* the add-agent answer of request r is 2xx with a parsed body whose success is true
UpstreamAccepted(up) == up.kind = "http" /\ Ok(up) /\ up.parses /\ ~up.isNull /\ up.success

\* request r, a create, sends its response in this step
CreateAnswers(r) == req[r].op = "create" /\ pc[r] # "done" /\ pc'[r] = "done"

\* in this step exactly one record is added, under the id the counter held, with the
\* body's four fields, and every record that was there is as before
AddsRecord(r) ==
    LET stored == getAgent(agents', currentAgentId)
        body == req[r].body
    IN  /\ ~MapHas(agents, currentAgentId)
        /\ agents' = Append(agents, [k |-> currentAgentId, v |-> stored])
        /\ currentAgentId' = currentAgentId + 1
        /\ stored.id = currentAgentId
        /\ stored.name = body.name
        /\ stored.description = body.description
        /\ stored.firstMessage = body.firstMessage
        /\ stored.createdBy = body.createdBy
        /\ loc'[r].agent = stored

\* C22 as stated: a create is answered 201 exactly when the upstream answered 2xx
\* with success true; exactly one record is then added, with a fresh id, the
\* request's fields and the text of the upstream's id as externalId, and the response
\* carries that record and the upstream's data.
C22_Original ==
    [][\A r \in Requests :
         /\ (pc[r] = "create_fetch" /\ Steps(r) /\ UpstreamAccepted(answer'[r]))
            => /\ StoresRecord(r)
               /\ AddsRecord(r)
               /\ loc'[r].agent.externalId = JsToString(answer'[r].dataId)
         /\ (CreateAnswers(r) /\ resp'[r].status = 201)
            => /\ UpstreamAccepted(answer[r])
               /\ resp'[r].agent = loc[r].agent
               /\ resp'[r].externalData = JsToString(answer[r].dataId)
         /\ (CreateAnswers(r) /\ UpstreamAccepted(answer'[r]))
            => resp'[r].status = 201]_vars

\* C22 amended: a create is answered 201 exactly when the upstream answered 2xx with
\* success true and a data.id; exactly one record is then added, with a fresh id, the
\* request's fields, and as externalId the text of the upstream's id, or null when
\* that text is empty; the response carries the record createAgent returned and the
\* upstream's data.  A 2xx answer with success true and no data.id is answered 500
\* and adds nothing, and no other step of a create touches the records.
C22_CreatedExactlyOnSuccess ==
    [][\A r \in Requests :
         /\ (pc[r] = "create_fetch" /\ Steps(r)
               /\ UpstreamAccepted(answer'[r]) /\ answer'[r].hasData)
            => /\ StoresRecord(r)
               /\ AddsRecord(r)
               /\ loc'[r].agent.externalId =
                     IF JsToString(answer'[r].dataId) = "" THEN Null
                     ELSE JsToString(answer'[r].dataId)
         /\ (pc[r] = "create_fetch" /\ Steps(r)
               /\ UpstreamAccepted(answer'[r]) /\ ~answer'[r].hasData)
            => /\ pc'[r] = "done"
               /\ resp'[r].status = 500
               /\ agentStore' = agentStore
         /\ (Steps(r) /\ req'[r].op = "create" /\ ~StoresRecord(r))
            => agentStore' = agentStore
         /\ StoresRecord(r) => (UpstreamAccepted(answer'[r]) /\ answer'[r].hasData)
         /\ (CreateAnswers(r) /\ resp'[r].status = 201)
            => /\ pc[r] = "create_created"
               /\ UpstreamAccepted(answer[r]) /\ answer[r].hasData
               /\ resp'[r].success
               /\ resp'[r].agent = loc[r].agent
               /\ resp'[r].agent.id # 0
               /\ resp'[r].externalData = JsToString(answer[r].dataId)
         /\ (pc[r] = "create_created" /\ Steps(r))
            => /\ pc'[r] = "done"
               /\ resp'[r].status = 201]_vars

\* one create was answered 201 with record 4 and the upstream's id 17, and another
\* was answered 500 after the upstream reported success without data
C22_Witness ==
    /\ \E r \in Requests :
          /\ pc[r] = "done"
          /\ req[r].op = "create"
          /\ resp[r].status = 201
          /\ resp[r].agent.id = 4
          /\ resp[r].agent.externalId = "17"
          /\ resp[r].agent.name = req[r].body.name
          /\ getAgent(agents, 4) = resp[r].agent
    /\ \E r \in Requests :
          /\ pc[r] = "done"
          /\ req[r].op = "create"
          /\ UpstreamAccepted(answer[r])
          /\ ~answer[r].hasData
          /\ resp[r].status = 500

\* a token value that is present and not empty
Present(token) == token \notin {Undefined, Null, ""}

\* the token the claim selects: the nested one when present, the flat one otherwise
SelectedToken(up) == IF Present(up.dataAccessToken) THEN up.dataAccessToken ELSE up.access_token

\* the token endpoint answered 2xx with a body that parses
LoginParsed(up) == up.kind = "http" /\ Ok(up) /\ up.parses

\* C23: for a 2xx parsed answer of the token endpoint the login uses data.accessToken
\* when present and not empty and the flat access_token otherwise; it goes on to log
\* in exactly when the selected token is present and not empty, it is answered 200
\* only then, and the Session it stores and the cookie it sets carry the selected
\* token.
C23_TokenSelection ==
    [][\A r \in Requests :
         /\ (pc[r] = "login_fetch" /\ Steps(r) /\ LoginParsed(answer'[r]))
            => IF Present(SelectedToken(answer'[r]))
               THEN /\ pc'[r] = "login_gotUser"
                    /\ loc'[r].accessToken = SelectedToken(answer'[r])
               ELSE /\ pc'[r] = "done"
                    /\ resp'[r].status # 200
                    /\ resp'[r].cookie = Undefined
         /\ CallsCreateSession(r)
            => /\ LoginParsed(answer[r])
               /\ getSession(sessions', loc[r].user.id).accessToken = SelectedToken(answer[r])
         /\ (pc[r] = "login_createdSession" /\ Steps(r))
            => /\ resp'[r].status = 200
               /\ resp'[r].cookie = SelectedToken(answer[r])
         /\ (Steps(r) /\ req'[r].op = "login" /\ resp'[r].status = 200)
            => /\ LoginParsed(answer'[r])
               /\ Present(SelectedToken(answer'[r]))]_vars

\* a login answered with the flat shape only and a login answered with both shapes
\* have both succeeded, the first with the flat token, the second with the nested one
C23_Witness ==
    /\ \E r \in Requests :
          /\ pc[r] = "done" /\ req[r].op = "login"
          /\ ~Present(answer[r].dataAccessToken)
          /\ answer[r].access_token = "tokB"
          /\ resp[r].status = 200
          /\ resp[r].cookie = "tokB"
    /\ \E r \in Requests :
          /\ pc[r] = "done" /\ req[r].op = "login"
          /\ answer[r].dataAccessToken = "tokA"
          /\ answer[r].access_token = "tokB"
          /\ resp[r].status = 200
          /\ resp[r].cookie = "tokA"

NoUpstreamOps == {"logout", "me", "delete"}

\* C24: a request makes at most one outbound call from its arrival to the closing
\* of its connection, whatever the answer to that call was, and a logout, an auth
\* check and a delete make none.
C24_AtMostOneCall ==
    \A r \in Requests :
        /\ calls[r] <= 1
        /\ req[r].op \in NoUpstreamOps => calls[r] = 0
        /\ answer[r] # NoUp => calls[r] = 1

\* a create whose only call failed in transport has been answered, with one call made
C24_Witness ==
    \E r \in Requests :
        /\ pc[r] = "done"
        /\ req[r].op = "create"
        /\ answer[r] = Throws
        /\ resp[r].status = 500
        /\ calls[r] = 1

\* request r's handler has met an exception: its body fails the schema, its outbound
\* call failed in transport, the 2xx answer's body does not parse, or (a create) the
\* accepted answer carries no data.id
Raised(r) ==
    \/ req[r].op = "login" /\ ~loginSchema(req[r].body)
    \/ req[r].op = "create" /\ HasToken(req[r].token) /\ ~insertAgentSchema(req[r].body)
    \/ req[r].op = "update" /\ HasToken(req[r].token) /\ ~insertAgentSchemaPartial(req[r].body)
    \/ answer[r].kind = "throw"
    \/ answer[r].kind = "http" /\ Ok(answer[r]) /\ ~answer[r].parses
    \/ /\ req[r].op = "create"
       /\ UpstreamAccepted(answer[r])
       /\ (~answer[r].hasData \/ answer[r].dataId = JsNone)

Statuses == 200..599

Errors == 400..599

\* C25: a request is answered exactly once. Its response is written in one step,
\* the step in which its handler ends, and is not written again before the
\* connection is closed; a handler that met an exception answers 4xx or 5xx; and
\* every request that has arrived is answered, given that its outbound call
\* returns or fails and that awaited storage calls resume.
C25_ExactlyOneResponse ==
    /\ [][\A r \in Requests :
            /\ (pc[r] \notin {"idle", "done"} \/ pc'[r] \notin {"idle", "done"})
               => resp[r] = NoResp
            /\ (pc[r] # "done" /\ pc'[r] = "done")
               => /\ resp[r] = NoResp
                  /\ resp'[r].status \in Statuses
                  /\ Raised(r)' => resp'[r].status \in Errors
            /\ (pc[r] = "done" /\ resp'[r] # resp[r])
               => pc'[r] = "idle" /\ resp'[r] = NoResp
            /\ (pc[r] # "done" /\ pc'[r] # "done") => resp'[r] = NoResp]_vars
    /\ \A r \in Requests : (pc[r] # "idle") ~> (pc[r] = "done")

\* a create that the upstream accepted without a data.id has been answered 500
C25_Witness ==
    \E r \in Requests :
        /\ pc[r] = "done"
        /\ req[r].op = "create"
        /\ UpstreamAccepted(answer[r])
        /\ ~answer[r].hasData
        /\ resp[r].status = 500

\* C26: every Account of the store is in the store after any step, under the same
\* id and with the same username and password; a login that finds the Account of
\* its username works with that Account as stored, whatever password it came with.
C26_AccountsStay ==
    [][/\ \A id \in MapKeys(users) :
             /\ MapHas(users', id)
             /\ getUser(users', id) = getUser(users, id)
       /\ \A r \in Requests :
             (pc[r] = "login_gotUser" /\ Steps(r) /\ loc[r].user # NoUser)
             => /\ users' = users
                /\ loc[r].user = getUser(users, loc[r].user.id)]_vars

\* alice's Account holds pw1 after a login of alice with pw2 was answered 200
C26_Witness ==
    \E r \in Requests :
        /\ pc[r] = "done"
        /\ req[r].op = "login"
        /\ req[r].body.username = "alice"
        /\ req[r].body.password = "pw2"
        /\ resp[r].status = 200
        /\ Len(users) = 1
        /\ getUserByUsername(users, "alice").password = "pw1"

\* input records of createAgent: texts that are empty or not, with and without an
\* externalId
RoundTripInputs ==
    StoreInserts \cup
    { [name |-> n, description |-> d, firstMessage |-> f, createdBy |-> "user",
       externalId |-> Undefined] : n \in {"", "n2"}, d \in {"", "d2"}, f \in {"", "f2"} }

\* C27: on every store the storage calls can produce, and for every input record,
\* getAgent of the id that createAgent returned, called on the store createAgent
\* left, returns a record with that id and with the input's name, description and
\* firstMessage.
C27_CreateThenGet ==
    \A ins \in RoundTripInputs, now \in Times :
        LET made == createAgent(agents, currentAgentId, ins, now)
            got == getAgent(made.agents, made.agent.id)
        IN  /\ got # NoAgent
            /\ got.id = made.agent.id
            /\ got.name = ins.name
            /\ got.description = ins.description
            /\ got.firstMessage = ins.firstMessage

\* createAgent has stored a record under id 4 after the seeded record 2 was deleted,
\* and getAgent returns it
C27_Witness ==
    /\ ~MapHas(agents, 2)
    /\ currentAgentId = Len(demoAgents) + 2
    /\ getAgent(agents, Len(demoAgents) + 1).id = Len(demoAgents) + 1
    /\ getAgent(agents, Len(demoAgents) + 1).name = FullBody.name

\* C28: a list request whose token starts with "demo_token_" is answered in its
\* first step, with no outbound call, 200 and the store's agent list.
C28_DemoTokenList ==
    [][\A r \in Requests :
         (pc[r] = "idle" /\ Steps(r) /\ req'[r].op = "list" /\ req'[r].token \in DemoTokens)
         => /\ pc'[r] = "done"
            /\ calls'[r] = 0
            /\ resp'[r].status = 200
            /\ resp'[r].list = getAgents(agents)]_vars

\* the record holds what the edit form carried
HoldsForm(record, form) ==
    /\ record.name = form.prompt
    /\ record.description = form.descp
    /\ record.firstMessage = form.first_message

\* both requests are updates of one record made by POST, both edit calls were
\* accepted and both handlers have stored their update
BothStored(r1, r2) ==
    /\ r1 # r2
    /\ pc[r1] = "update_updated"
    /\ pc[r2] = "update_updated"
    /\ loc[r1].agentId = loc[r2].agentId
    /\ CreatedByPost(getAgent(agents, loc[r1].agentId))

\* C29: when two updates of one record were in flight together and both succeeded,
\* the record holds the prompt, descp and first_message of the edit call the
\* upstream received last; whichever of the two calls that was, the record holds
\* the form of one of them.
C29_LastEditWins ==
    \A r1, r2 \in Requests :
        BothStored(r1, r2)
        => \/ HoldsForm(getAgent(agents, loc[r1].agentId), loc[r1].form)
           \/ HoldsForm(getAgent(agents, loc[r2].agentId), loc[r2].form)

\* C30: a logout is answered at once with the cookie cleared and leaves the store as
\* it was, so that getSession returns for every user the Session it returned before;
\* and no step of any endpoint removes a Session: every userId that has a Session
\* has one after the step.
C30_LogoutKeepsSessions ==
    [][/\ \A r \in Requests :
             (pc[r] = "idle" /\ Steps(r) /\ req'[r].op = "logout")
             => /\ pc'[r] = "done"
                /\ resp'[r].status = 200
                /\ resp'[r].cookie = Cleared
                /\ calls'[r] = 0
                /\ store' = store
                /\ \A userId \in MapKeys(sessions) :
                      getSession(sessions', userId) = getSession(sessions, userId)
       /\ MapKeys(sessions) \subseteq MapKeys(sessions')
       /\ \A userId \in MapKeys(sessions) : getSession(sessions', userId) # NoSession]_vars

\* a logout has been answered and the Session of user 1 is in the store with its
\* access token
C30_Witness ==
    \E r \in Requests :
        /\ pc[r] = "done"
        /\ req[r].op = "logout"
        /\ resp[r].cookie = Cleared
        /\ getSession(sessions, 1).accessToken \in {"tokA", "tokB"}

====
